---- MODULE Spec2Model ----
(***************************************************************************)
(* Model of ppcheat: the Opcode value type of the PowerPC rotate-and-mask  *)
(* family, Opcode::canonicalize, Opcode::highlevel and the nom parser      *)
(* (parse_register, parse_immediate, the per-mnemonic parsers and the two  *)
(* parse_opcode dispatchers of src/main.rs and src/parser.rs).             *)
(*                                                                         *)
(* Text is a sequence of one-character strings.  A parser returns          *)
(*   [ok |-> TRUE,  rest, val]        for nom's Ok((rest, val))            *)
(*   [ok |-> FALSE, input, code]      for Err(Err::Error(Error{input,code}))*)
(***************************************************************************)
EXTENDS Integers, Sequences, FiniteSets, TLC

\* ---------------------------------------------------------------- bounds
MaxPad == 2        \* longest run of whitespace put in one gap of a line
MaxZeros == 1      \* most leading zeros written in front of a number
MaxOperand == 32   \* largest n / b / sh / mb / me of a constructed Opcode

\* ------------------------------------------------------ program constants
U8Max == 255       \* largest value of the u8 operand type
WordBits == 32     \* the literal 32 of canonicalize
LastBit == 31      \* the literal 31 of canonicalize

\* ------------------------------------------------------------------ text
DecDigits == <<"0", "1", "2", "3", "4", "5", "6", "7", "8", "9">>
LowerHex == DecDigits \o <<"a", "b", "c", "d", "e", "f">>
UpperHex == DecDigits \o <<"A", "B", "C", "D", "E", "F">>

is_digit(c) == \E i \in 1..10 : DecDigits[i] = c
is_hex_digit(c) == \E i \in 1..16 : LowerHex[i] = c \/ UpperHex[i] = c
is_multispace(c) == c \in {" ", "\t", "\r", "\n"}

\* char::to_digit(radix): the value of a digit character
to_digit(c) == CHOOSE v \in 0..15 : LowerHex[v + 1] = c \/ UpperHex[v + 1] = c

Drop(s, k) == SubSeq(s, k + 1, Len(s))
Take(s, k) == SubSeq(s, 1, k)

Ok(rest, val) == [ok |-> TRUE, rest |-> rest, val |-> val]
Error(input, code) == [ok |-> FALSE, input |-> input, code |-> code]

\* ------------------------------------------------------- nom combinators
\* bytes::complete::tag: exact, case-sensitive literal
tag(t, inp) ==
  IF Len(inp) >= Len(t) /\ Take(inp, Len(t)) = t
  THEN Ok(Drop(inp, Len(t)), t)
  ELSE Error(inp, "Tag")

\* length of the longest prefix of inp whose characters are all digits
DigitRun(inp) ==
  CHOOSE k \in 0..Len(inp) :
    /\ \A i \in 1..k : is_digit(inp[i])
    /\ (k = Len(inp) \/ ~is_digit(inp[k + 1]))

HexDigitRun(inp) ==
  CHOOSE k \in 0..Len(inp) :
    /\ \A i \in 1..k : is_hex_digit(inp[i])
    /\ (k = Len(inp) \/ ~is_hex_digit(inp[k + 1]))

SpaceRun(inp) ==
  CHOOSE k \in 0..Len(inp) :
    /\ \A i \in 1..k : is_multispace(inp[i])
    /\ (k = Len(inp) \/ ~is_multispace(inp[k + 1]))

\* a parser that takes the first k characters, at least one: Err(code) if
\* k = 0
take1(inp, k, code) ==
  IF k = 0 THEN Error(inp, code) ELSE Ok(Drop(inp, k), Take(inp, k))

\* character::complete::digit1: one or more decimal digits
digit1(inp) == take1(inp, DigitRun(inp), "Digit")

\* character::complete::hex_digit1: one or more of 0-9 a-f A-F
hex_digit1(inp) == take1(inp, HexDigitRun(inp), "HexDigit")

\* a parser that takes the first k characters
take0(inp, k) == Ok(Drop(inp, k), Take(inp, k))

\* character::complete::multispace0: zero or more of space, tab, CR, LF
multispace0(inp) == take0(inp, SpaceRun(inp))

\* u8::from_str_radix on a non-empty digit string: checked multiply and add
\* per digit, Err(PosOverflow) as soon as the value leaves 0..255
RECURSIVE from_str_radix_acc(_, _, _)
from_str_radix_acc(x, radix, acc) ==
  IF x = <<>> THEN [ok |-> TRUE, val |-> acc]
  ELSE IF acc * radix + to_digit(Head(x)) > U8Max THEN [ok |-> FALSE, val |-> 0]
  ELSE from_str_radix_acc(Tail(x), radix, acc * radix + to_digit(Head(x)))

from_str_radix(x, radix) == from_str_radix_acc(x, radix, 0)

\* map_res, second half: the closure's Result n for the text a parser took
\* from input i, leaving rest
map_res_result(i, rest, n) ==
  IF n.ok THEN Ok(rest, n.val) ELSE Error(i, "MapRes")

\* map_res(parser, |x| u8 from x in this radix): d is what the parser
\* returned on input i
map_res_u8(i, d, radix) ==
  IF ~d.ok THEN d ELSE map_res_result(i, d.rest, from_str_radix(d.val, radix))

\* ------------------------------------------------------------- operands
Register(v) == [num |-> v]

\* .map(Register) on the parsed number
map_Register(r) == IF r.ok THEN Ok(r.rest, Register(r.val)) ELSE r

\* preceded(tag("r"), ...), once tag("r") has returned t
register_number(t) ==
  IF ~t.ok THEN t ELSE map_Register(map_res_u8(t.rest, digit1(t.rest), 10))

parse_register(inp) == register_number(tag(<<"r">>, inp))

\* preceded(tag("0x"), hex_digit1), once tag("0x") has returned t
hex_digits(t) == IF ~t.ok THEN t ELSE hex_digit1(t.rest)

\* first alternative of parse_immediate: "0x" then hex digits, as u8
hex_immediate(inp) == map_res_u8(inp, hex_digits(tag(<<"0", "x">>, inp)), 16)

\* second alternative of parse_immediate: decimal digits, as u8
dec_immediate(inp) == map_res_u8(inp, digit1(inp), 10)

\* alt of two parsers, given what each returns on the same input: the second
\* counts whenever the first returned an error, and its error is the one
\* reported
alt2(first, second) == IF first.ok THEN first ELSE second

\* parse_immediate with its alternatives in the other order
parse_immediate_decimal_first(inp) ==
  alt2(dec_immediate(inp), hex_immediate(inp))

parse_immediate(inp) == alt2(hex_immediate(inp), dec_immediate(inp))

\* map(parser, |_| ())
unit(r) == IF r.ok THEN Ok(r.rest, <<>>) ELSE r

\* whitespace that skips nothing
whitespace_none(inp) == Ok(inp, <<>>)

whitespace(inp) == unit(multispace0(inp))

\* tuple((multispace0, tag(","), multispace0)): the tag after the first
\* multispace0 returned s, the second multispace0 after the tag returned t
comma(s) == tag(<<",">>, s.rest)
space_after(t) == IF ~t.ok THEN t ELSE multispace0(t.rest)

comma_sep(inp) == unit(space_after(comma(multispace0(inp))))

\* ---------------------------------------------------------------- Opcode
Rlwinm(ra, rs, sh, mb, me) ==
  [tag |-> "Rlwinm", ra |-> ra, rs |-> rs, sh |-> sh, mb |-> mb, me |-> me]
Rlwimi(ra, rs, sh, mb, me) ==
  [tag |-> "Rlwimi", ra |-> ra, rs |-> rs, sh |-> sh, mb |-> mb, me |-> me]
Rlwnm(ra, rs, rb, mb, me) ==
  [tag |-> "Rlwnm", ra |-> ra, rs |-> rs, rb |-> rb, mb |-> mb, me |-> me]
Extlwi(ra, rs, n, b) == [tag |-> "Extlwi", ra |-> ra, rs |-> rs, n |-> n, b |-> b]
Extrwi(ra, rs, n, b) == [tag |-> "Extrwi", ra |-> ra, rs |-> rs, n |-> n, b |-> b]
Rotlwi(ra, rs, n) == [tag |-> "Rotlwi", ra |-> ra, rs |-> rs, n |-> n]
Rotrwi(ra, rs, n) == [tag |-> "Rotrwi", ra |-> ra, rs |-> rs, n |-> n]
Slwi(ra, rs, n) == [tag |-> "Slwi", ra |-> ra, rs |-> rs, n |-> n]
Srwi(ra, rs, n) == [tag |-> "Srwi", ra |-> ra, rs |-> rs, n |-> n]
Clrlwi(ra, rs, n) == [tag |-> "Clrlwi", ra |-> ra, rs |-> rs, n |-> n]
Clrrwi(ra, rs, n) == [tag |-> "Clrrwi", ra |-> ra, rs |-> rs, n |-> n]
Clrlslwi(ra, rs, b, n) == [tag |-> "Clrlslwi", ra |-> ra, rs |-> rs, b |-> b, n |-> n]
Rotlw(ra, rs, rb) == [tag |-> "Rotlw", ra |-> ra, rs |-> rs, rb |-> rb]
Inslwi(ra, rs, n, b) == [tag |-> "Inslwi", ra |-> ra, rs |-> rs, n |-> n, b |-> b]
Insrwi(ra, rs, n, b) == [tag |-> "Insrwi", ra |-> ra, rs |-> rs, n |-> n, b |-> b]

\* ------------------------------------------------- per-mnemonic parsers
\* tuple((preceded(whitespace, p1), preceded(comma_sep, p2), ...)): the
\* operands in order, each after its separator; kinds[i] is "reg" for
\* parse_register and "imm" for parse_immediate.  The first error ends it.
RECURSIVE operand_tuple(_, _, _, _)

\* the separator in front of operand i
separator(i, inp) == IF i = 1 THEN whitespace(inp) ELSE comma_sep(inp)

\* the operand parser of one position
operand(kind, inp) ==
  IF kind = "reg" THEN parse_register(inp) ELSE parse_immediate(inp)

\* the rest of the tuple once operand i has returned p
operand_parsed(kinds, i, acc, p) ==
  IF ~p.ok THEN p ELSE operand_tuple(kinds, i + 1, p.rest, Append(acc, p.val))

\* preceded(separator, operand) once the separator has returned sep
operand_preceded(kinds, i, acc, sep) ==
  IF ~sep.ok THEN sep
  ELSE operand_parsed(kinds, i, acc, operand(kinds[i], sep.rest))

operand_tuple(kinds, i, inp, acc) ==
  IF i > Len(kinds) THEN Ok(inp, acc)
  ELSE operand_preceded(kinds, i, acc, separator(i, inp))

\* preceded(tag(keyword), tuple(...)) once the tag has returned t
operands(kinds, t) ==
  IF ~t.ok THEN t ELSE operand_tuple(kinds, 1, t.rest, <<>>)

\* preceded(tag(keyword), tuple(...)): the keyword, then its operands
mnemonic(keyword, kinds, inp) == operands(kinds, tag(keyword, inp))

RRIII == <<"reg", "reg", "imm", "imm", "imm">>
RRRII == <<"reg", "reg", "reg", "imm", "imm">>
RRII == <<"reg", "reg", "imm", "imm">>
RRI == <<"reg", "reg", "imm">>
RRR == <<"reg", "reg", "reg">>

KW_rlwinm == <<"r", "l", "w", "i", "n", "m">>
KW_rlwimi == <<"r", "l", "w", "i", "m", "i">>
KW_rlwnm == <<"r", "l", "w", "n", "m">>
KW_extlwi == <<"e", "x", "t", "l", "w", "i">>
KW_extrwi == <<"e", "x", "t", "r", "w", "i">>
KW_rotlwi == <<"r", "o", "t", "l", "w", "i">>
KW_rotrwi == <<"r", "o", "t", "r", "w", "i">>
KW_slwi == <<"s", "l", "w", "i">>
KW_srwi == <<"s", "r", "w", "i">>
KW_clrlwi == <<"c", "l", "r", "l", "w", "i">>
KW_clrrwi == <<"c", "l", "r", "r", "w", "i">>
KW_clrlslwi == <<"c", "l", "r", "l", "s", "l", "w", "i">>
KW_rotlw == <<"r", "o", "t", "l", "w">>
KW_inslwi == <<"i", "n", "s", "l", "w", "i">>
KW_insrwi == <<"i", "n", "s", "r", "w", "i">>

\* map(tuple(...), |(..)| Opcode::X { .. }): the closure of each parser,
\* applied to what the tuple returned
to_Rlwinm(m) == IF m.ok THEN Ok(m.rest, Rlwinm(m.val[1], m.val[2], m.val[3], m.val[4], m.val[5])) ELSE m
to_Rlwimi(m) == IF m.ok THEN Ok(m.rest, Rlwimi(m.val[1], m.val[2], m.val[3], m.val[4], m.val[5])) ELSE m
to_Rlwnm(m) == IF m.ok THEN Ok(m.rest, Rlwnm(m.val[1], m.val[2], m.val[3], m.val[4], m.val[5])) ELSE m
to_Extlwi(m) == IF m.ok THEN Ok(m.rest, Extlwi(m.val[1], m.val[2], m.val[3], m.val[4])) ELSE m
to_Extrwi(m) == IF m.ok THEN Ok(m.rest, Extrwi(m.val[1], m.val[2], m.val[3], m.val[4])) ELSE m
to_Rotlwi(m) == IF m.ok THEN Ok(m.rest, Rotlwi(m.val[1], m.val[2], m.val[3])) ELSE m
to_Rotrwi(m) == IF m.ok THEN Ok(m.rest, Rotrwi(m.val[1], m.val[2], m.val[3])) ELSE m
to_Slwi(m) == IF m.ok THEN Ok(m.rest, Slwi(m.val[1], m.val[2], m.val[3])) ELSE m
to_Srwi(m) == IF m.ok THEN Ok(m.rest, Srwi(m.val[1], m.val[2], m.val[3])) ELSE m
to_Clrlwi(m) == IF m.ok THEN Ok(m.rest, Clrlwi(m.val[1], m.val[2], m.val[3])) ELSE m
to_Clrrwi(m) == IF m.ok THEN Ok(m.rest, Clrrwi(m.val[1], m.val[2], m.val[3])) ELSE m
to_Clrlslwi(m) == IF m.ok THEN Ok(m.rest, Clrlslwi(m.val[1], m.val[2], m.val[3], m.val[4])) ELSE m
to_Rotlw(m) == IF m.ok THEN Ok(m.rest, Rotlw(m.val[1], m.val[2], m.val[3])) ELSE m
to_Inslwi(m) == IF m.ok THEN Ok(m.rest, Inslwi(m.val[1], m.val[2], m.val[3], m.val[4])) ELSE m
to_Insrwi(m) == IF m.ok THEN Ok(m.rest, Insrwi(m.val[1], m.val[2], m.val[3], m.val[4])) ELSE m

parse_rlwinm(inp) == to_Rlwinm(mnemonic(KW_rlwinm, RRIII, inp))
parse_rlwimi(inp) == to_Rlwimi(mnemonic(KW_rlwimi, RRIII, inp))
parse_rlwnm(inp) == to_Rlwnm(mnemonic(KW_rlwnm, RRRII, inp))
parse_extlwi(inp) == to_Extlwi(mnemonic(KW_extlwi, RRII, inp))
parse_extrwi(inp) == to_Extrwi(mnemonic(KW_extrwi, RRII, inp))
parse_rotlwi(inp) == to_Rotlwi(mnemonic(KW_rotlwi, RRI, inp))
parse_rotrwi(inp) == to_Rotrwi(mnemonic(KW_rotrwi, RRI, inp))
parse_slwi(inp) == to_Slwi(mnemonic(KW_slwi, RRI, inp))
\* parse_srwi left with the keyword of the parse_slwi it was copied from
parse_srwi_slwi_keyword(inp) == to_Srwi(mnemonic(KW_slwi, RRI, inp))
parse_srwi(inp) == to_Srwi(mnemonic(KW_srwi, RRI, inp))
parse_clrlwi(inp) == to_Clrlwi(mnemonic(KW_clrlwi, RRI, inp))
parse_clrrwi(inp) == to_Clrrwi(mnemonic(KW_clrrwi, RRI, inp))
parse_clrlslwi(inp) == to_Clrlslwi(mnemonic(KW_clrlslwi, RRII, inp))
parse_rotlw(inp) == to_Rotlw(mnemonic(KW_rotlw, RRR, inp))
parse_inslwi(inp) == to_Inslwi(mnemonic(KW_inslwi, RRII, inp))
parse_insrwi(inp) == to_Insrwi(mnemonic(KW_insrwi, RRII, inp))

\* one alternative of a dispatcher, by the name of its function
parse_alternative(name, inp) ==
  CASE name = "rlwinm" -> parse_rlwinm(inp)
    [] name = "rlwimi" -> parse_rlwimi(inp)
    [] name = "rlwnm" -> parse_rlwnm(inp)
    [] name = "extlwi" -> parse_extlwi(inp)
    [] name = "extrwi" -> parse_extrwi(inp)
    [] name = "rotlwi" -> parse_rotlwi(inp)
    [] name = "rotrwi" -> parse_rotrwi(inp)
    [] name = "slwi" -> parse_slwi(inp)
    [] name = "srwi" -> parse_srwi(inp)
    [] name = "clrlwi" -> parse_clrlwi(inp)
    [] name = "clrrwi" -> parse_clrrwi(inp)
    [] name = "clrlslwi" -> parse_clrlslwi(inp)
    [] name = "rotlw" -> parse_rotlw(inp)
    [] name = "inslwi" -> parse_inslwi(inp)
    [] name = "insrwi" -> parse_insrwi(inp)

\* branch::alt over a tuple of parsers: the first Ok is returned; when every
\* alternative returns Err::Error the errors are merged with ParseError::or
\* and ParseError::append, which for nom's Error type keep the last one
RECURSIVE alt(_, _)

\* alt once its first alternative has returned r
alt_next(names, inp, r) ==
  IF r.ok \/ Len(names) = 1 THEN r ELSE alt(Tail(names), inp)

alt(names, inp) == alt_next(names, inp, parse_alternative(Head(names), inp))

\* parse_opcode of src/main.rs: thirteen alternatives
MainAlternatives ==
  <<"rlwinm", "rlwimi", "rlwnm", "extlwi", "extrwi", "rotlwi", "rotrwi",
    "slwi", "srwi", "clrlwi", "clrrwi", "clrlslwi", "rotlw">>

main_parse_opcode(inp) == alt(MainAlternatives, inp)

\* parse_opcode of src/parser.rs: fifteen alternatives
ParserAlternatives ==
  <<"rlwinm", "rlwimi", "rlwnm", "extlwi", "extrwi", "rotlwi", "rotrwi",
    "slwi", "srwi", "clrlwi", "clrrwi", "clrlslwi", "rotlw", "inslwi",
    "insrwi">>

parse_opcode(inp) == alt(ParserAlternatives, inp)

\* ----------------------------------------------------------- Opcode impl
\* u8 `+` and `-`: v is the wrapped result, o says the exact result left
\* 0..255.  With overflow checks compiled in (the dev and test profiles) an
\* overflowing operation panics; without them (release) it wraps.
add(a, b) == [v |-> (a + b) % (U8Max + 1), o |-> a + b > U8Max]
sub(a, b) == [v |-> (a - b) % (U8Max + 1), o |-> a < b]

ArithmeticOverflow == [tag |-> "panic", msg |-> "arithmetic overflow"]
Unimplemented == [tag |-> "panic", msg |-> "not implemented"]

\* the value of an arm whose arithmetic steps are `steps`
checked(overflow_checks, steps, value) ==
  IF overflow_checks /\ \E i \in 1..Len(steps) : steps[i].o
  THEN ArithmeticOverflow
  ELSE value

IsCanonical(self) == self.tag \in {"Rlwinm", "Rlwimi", "Rlwnm"}

\* clone as a canonical arm that rebuilds the value under the wrong variant
clone_as_rlwinm(self) ==
  IF self.tag = "Rlwimi" THEN [self EXCEPT !.tag = "Rlwinm"] ELSE self

\* self.clone() of the three canonical arms (Opcode is Copy)
clone(self) == self

\* the twelve pseudomnemonic arms of canonicalize
rewrite(self, oc) ==
  LET ra == self.ra
      rs == self.rs
      n == self.n
      b == self.b
      bn == add(b, n)
  IN
  CASE self.tag = "Inslwi" ->
         checked(oc, <<sub(WordBits, b), bn, sub(bn.v, 1)>>,
                 Rlwinm(ra, rs, sub(WordBits, b).v, b, sub(bn.v, 1).v))
    [] self.tag = "Insrwi" ->
         checked(oc, <<bn, sub(WordBits, bn.v), sub(bn.v, 1)>>,
                 Rlwinm(ra, rs, sub(WordBits, bn.v).v, b, sub(bn.v, 1).v))
    [] self.tag = "Extlwi" ->
         checked(oc, <<sub(n, 1)>>, Rlwinm(ra, rs, b, 0, sub(n, 1).v))
    [] self.tag = "Extrwi" ->
         checked(oc, <<bn, sub(WordBits, n)>>,
                 Rlwinm(ra, rs, bn.v, sub(WordBits, n).v, LastBit))
    [] self.tag = "Rotlwi" ->
         Rlwinm(ra, rs, n, 0, LastBit)
    [] self.tag = "Rotrwi" ->
         checked(oc, <<sub(WordBits, n)>>,
                 Rlwinm(ra, rs, sub(WordBits, n).v, 0, LastBit))
    [] self.tag = "Slwi" ->
         checked(oc, <<sub(LastBit, n)>>, Rlwinm(ra, rs, n, 0, sub(LastBit, n).v))
    [] self.tag = "Srwi" ->
         checked(oc, <<sub(WordBits, n)>>,
                 Rlwinm(ra, rs, sub(WordBits, n).v, n, LastBit))
    [] self.tag = "Clrlwi" ->
         Rlwinm(ra, rs, 0, n, LastBit)
    [] self.tag = "Clrrwi" ->
         checked(oc, <<sub(LastBit, n)>>, Rlwinm(ra, rs, 0, 0, sub(LastBit, n).v))
    [] self.tag = "Clrlslwi" ->
         checked(oc, <<sub(b, n), sub(LastBit, n)>>,
                 Rlwinm(ra, rs, n, sub(b, n).v, sub(LastBit, n).v))
    [] self.tag = "Rotlw" ->
         Rlwnm(ra, rs, self.rb, 0, LastBit)

\* Opcode::canonicalize; oc is whether the build checks arithmetic overflow
canonicalize(self, oc) ==
  IF IsCanonical(self) THEN clone(self) ELSE rewrite(self, oc)

\* Display of a u8: decimal, no leading zeros
RECURSIVE to_string(_)
to_string(v) ==
  IF v < 10 THEN <<DecDigits[v + 1]>>
  ELSE to_string(v \div 10) \o <<DecDigits[(v % 10) + 1]>>

\* Display of Register: "r{}"
fmt(reg) == <<"r">> \o to_string(reg.num)

\* highlevel whose first arm also takes Rlwimi, which has the same fields
highlevel_rlwimi_too(self) ==
  IF self.tag \in {"Rlwinm", "Rlwimi"}
  THEN fmt(self.ra) \o <<" ", "=", " ", "(">> \o fmt(self.rs)
       \o <<" ", "<", "<", " ">> \o to_string(self.sh)
       \o <<")", " ", "&", " ", "M", "A", "S", "K", "(">> \o to_string(self.mb)
       \o <<".", ".">> \o to_string(self.me) \o <<")">>
  ELSE Unimplemented

\* Opcode::highlevel: the description of an Rlwinm, unimplemented!() otherwise
highlevel(self) ==
  IF self.tag = "Rlwinm"
  THEN fmt(self.ra) \o <<" ", "=", " ", "(">> \o fmt(self.rs)
       \o <<" ", "<", "<", " ">> \o to_string(self.sh)
       \o <<")", " ", "&", " ", "M", "A", "S", "K", "(">> \o to_string(self.mb)
       \o <<".", ".">> \o to_string(self.me) \o <<")">>
  ELSE Unimplemented

\* ------------------------------------------------------------ input lines
\* The fifteen mnemonics: keyword, variant, operand kinds and the variant's
\* field that each operand position fills.
Mnemonics ==
  <<
    [name |-> "rlwinm", kw |-> KW_rlwinm, tag |-> "Rlwinm", kinds |-> RRIII,
     fields |-> <<"ra", "rs", "sh", "mb", "me">>],
    [name |-> "rlwimi", kw |-> KW_rlwimi, tag |-> "Rlwimi", kinds |-> RRIII,
     fields |-> <<"ra", "rs", "sh", "mb", "me">>],
    [name |-> "rlwnm", kw |-> KW_rlwnm, tag |-> "Rlwnm", kinds |-> RRRII,
     fields |-> <<"ra", "rs", "rb", "mb", "me">>],
    [name |-> "extlwi", kw |-> KW_extlwi, tag |-> "Extlwi", kinds |-> RRII,
     fields |-> <<"ra", "rs", "n", "b">>],
    [name |-> "extrwi", kw |-> KW_extrwi, tag |-> "Extrwi", kinds |-> RRII,
     fields |-> <<"ra", "rs", "n", "b">>],
    [name |-> "rotlwi", kw |-> KW_rotlwi, tag |-> "Rotlwi", kinds |-> RRI,
     fields |-> <<"ra", "rs", "n">>],
    [name |-> "rotrwi", kw |-> KW_rotrwi, tag |-> "Rotrwi", kinds |-> RRI,
     fields |-> <<"ra", "rs", "n">>],
    [name |-> "slwi", kw |-> KW_slwi, tag |-> "Slwi", kinds |-> RRI,
     fields |-> <<"ra", "rs", "n">>],
    [name |-> "srwi", kw |-> KW_srwi, tag |-> "Srwi", kinds |-> RRI,
     fields |-> <<"ra", "rs", "n">>],
    [name |-> "clrlwi", kw |-> KW_clrlwi, tag |-> "Clrlwi", kinds |-> RRI,
     fields |-> <<"ra", "rs", "n">>],
    [name |-> "clrrwi", kw |-> KW_clrrwi, tag |-> "Clrrwi", kinds |-> RRI,
     fields |-> <<"ra", "rs", "n">>],
    [name |-> "clrlslwi", kw |-> KW_clrlslwi, tag |-> "Clrlslwi", kinds |-> RRII,
     fields |-> <<"ra", "rs", "b", "n">>],
    [name |-> "rotlw", kw |-> KW_rotlw, tag |-> "Rotlw", kinds |-> RRR,
     fields |-> <<"ra", "rs", "rb">>],
    [name |-> "inslwi", kw |-> KW_inslwi, tag |-> "Inslwi", kinds |-> RRII,
     fields |-> <<"ra", "rs", "n", "b">>],
    [name |-> "insrwi", kw |-> KW_insrwi, tag |-> "Insrwi", kinds |-> RRII,
     fields |-> <<"ra", "rs", "n", "b">>]
  >>

Zeros(z) == [i \in 1..z |-> "0"]

RECURSIVE to_hex(_, _)
to_hex(v, digits) ==
  IF v < 16 THEN <<digits[v + 1]>>
  ELSE to_hex(v \div 16, digits) \o <<digits[(v % 16) + 1]>>

\* operand texts; val is the number the text denotes
RegTok(v, z) ==
  [text |-> <<"r">> \o Zeros(z) \o to_string(v), kind |-> "reg", val |-> v]
DecTok(v, z) ==
  [text |-> Zeros(z) \o to_string(v), kind |-> "dec", val |-> v]
HexTok(v, digits, z) ==
  [text |-> <<"0", "x">> \o Zeros(z) \o to_hex(v, digits), kind |-> "hex",
   val |-> v]
UpperPrefixTok(v, digits, z) ==
  [text |-> <<"0", "X">> \o Zeros(z) \o to_hex(v, digits), kind |-> "hexX",
   val |-> v]
BadTok(text) == [text |-> text, kind |-> "bad", val |-> 0]

WsChars == <<" ", "\t", "\n", "\r">>
Pad(k, off) == [i \in 1..k |-> WsChars[((off + i - 1) % 4) + 1]]

Lower == <<"a", "b", "c", "d", "e", "f", "g", "h", "i", "j", "k", "l", "m",
           "n", "o", "p", "q", "r", "s", "t", "u", "v", "w", "x", "y", "z">>
Upper == <<"A", "B", "C", "D", "E", "F", "G", "H", "I", "J", "K", "L", "M",
           "N", "O", "P", "Q", "R", "S", "T", "U", "V", "W", "X", "Y", "Z">>
to_uppercase(w) ==
  [i \in 1..Len(w) |-> Upper[CHOOSE j \in 1..26 : Lower[j] = w[i]]]

\* A line description: keyword text, operand texts, and the whitespace: lead
\* characters after the keyword, pre before and post after comma number
\* `at` (every comma when at = 0).
RECURSIVE RenderOperands(_, _)
RenderOperands(in, i) ==
  IF i > Len(in.toks) THEN <<>>
  ELSE (IF i = 1 THEN Pad(in.lead, 0)
        ELSE Pad(IF in.at \in {0, i - 1} THEN in.pre ELSE 0, 1) \o <<",">>
             \o Pad(IF in.at \in {0, i - 1} THEN in.post ELSE 0, 2))
       \o in.toks[i].text \o RenderOperands(in, i + 1)

Render(in) == in.kw \o RenderOperands(in, 1)

Unpadded(in) == [in EXCEPT !.lead = 0, !.pre = 0, !.post = 0, !.at = 0]

\* operand values used to fill a line: hexadecimal immediates as in
\* test_rlwinm, or decimal ones
HexBase == [vals |-> <<0, 7, 16, 0, 15>>, form |-> "hex"]
DecBase == [vals |-> <<3, 4, 5, 8, 3>>, form |-> "dec"]
BaseVals == {HexBase, DecBase}

BaseToks(m, base) ==
  [i \in 1..Len(Mnemonics[m].kinds) |->
     IF Mnemonics[m].kinds[i] = "reg" THEN RegTok(base.vals[i], 0)
     ELSE IF base.form = "hex" THEN HexTok(base.vals[i], LowerHex, 0)
     ELSE DecTok(base.vals[i], 0)]

LineOf(family, m, kw, toks, lead, pre, post, at, p) ==
  [family |-> family, m |-> m, kw |-> kw, toks |-> toks, lead |-> lead,
   pre |-> pre, post |-> post, at |-> at, p |-> p]

\* valid lines under every whitespace pattern
PaddedLines ==
  { LineOf("padded", m, Mnemonics[m].kw, BaseToks(m, base), lead, pre, post,
           at, 0) :
      m \in 1..15, base \in {HexBase}, lead \in 0..MaxPad,
      pre \in 0..MaxPad, post \in 0..MaxPad, at \in 0..4 }
  \cup
  { LineOf("padded", m, Mnemonics[m].kw, BaseToks(m, DecBase), lead, 0, 0,
           0, 0) :
      m \in 1..15, lead \in 0..1 }

\* the same lines with the keyword in uppercase, and an unknown keyword
CaseLines ==
  { LineOf("upper", m, to_uppercase(Mnemonics[m].kw), BaseToks(m, base),
           lead, 0, 0, 0, 0) :
      m \in 1..15, base \in BaseVals, lead \in 0..1 }
  \cup
  { LineOf("unknown", m, <<"b", "o", "g", "u", "s">>, BaseToks(m, base),
           lead, 0, 0, 0, 0) :
      m \in 1..15, base \in BaseVals, lead \in 0..1 }

\* operand texts put in place of one operand of a valid line
Probes ==
  { RegTok(U8Max, 0), RegTok(U8Max + 1, 0), RegTok(U8Max + 1, MaxZeros),
    RegTok(999, 0),
    DecTok(U8Max, 0), DecTok(U8Max + 1, 0), DecTok(U8Max + 1, MaxZeros),
    DecTok(999, 0),
    HexTok(U8Max, LowerHex, 0), HexTok(U8Max + 1, LowerHex, 0),
    HexTok(U8Max + 1, UpperHex, MaxZeros), HexTok(4095, LowerHex, 0),
    UpperPrefixTok(16, LowerHex, 0),
    BadTok(<<"0", "x">>), BadTok(<<"0", "x", "g">>), BadTok(<<"x", "1">>),
    BadTok(<<"r">>), BadTok(<<"r", "x">>), BadTok(<<>>) }

\* toks with the operand at position p replaced by t
Subst(toks, p, t) == [i \in 1..Len(toks) |-> IF i = p THEN t ELSE toks[i]]

ProbeLines ==
  { LineOf("probe", m, Mnemonics[m].kw,
           Subst(BaseToks(m, base), p, t), 1, 0, 0, 0, p) :
      m \in 1..15, base \in {DecBase}, p \in 1..5, t \in Probes }

\* lines with one operand too few or one too many
ArityLines ==
  { LineOf("short", m, Mnemonics[m].kw,
           Take(BaseToks(m, base), Len(Mnemonics[m].kinds) - 1), 1, 0, 0, 0, 0) :
      m \in 1..15, base \in BaseVals }
  \cup
  { LineOf("long", m, Mnemonics[m].kw,
           Append(BaseToks(m, base), DecTok(1, 0)), 1, 0, 0, 0, 0) :
      m \in 1..15, base \in BaseVals }

\* the keyword of one mnemonic in front of the operands of another
CrossLines ==
  { LineOf("cross", m, Mnemonics[m].kw, BaseToks(m2, base), lead, 0, 0, 0,
           0) :
      m \in 1..15, m2 \in 1..15, base \in BaseVals, lead \in 0..1 }

\* every 8-bit value in every notation, as the last operand of rlwinm and
\* as the one before it
SweepToks ==
  UNION { { DecTok(v, z), HexTok(v, LowerHex, z), HexTok(v, UpperHex, z),
            UpperPrefixTok(v, LowerHex, z) } :
          v \in 0..U8Max, z \in 0..MaxZeros }

SweepLines ==
  { LineOf("sweep", m, Mnemonics[m].kw,
           Subst(BaseToks(m, DecBase), p, t), 1, 0, 0, 0, p) :
      m \in {1}, p \in 4..5, t \in SweepToks }

WellFormed(in) ==
  /\ in.p <= Len(Mnemonics[in.m].kinds)
  /\ in.at < Len(in.toks)
  /\ (in.pre + in.post = 0 => in.at = 0)
  /\ (in.p > 0 => Mnemonics[in.m].kinds[in.p] = "imm" \/ in.family = "probe")

Lines ==
  { in \in PaddedLines \cup CaseLines \cup ProbeLines \cup ArityLines
           \cup CrossLines \cup SweepLines : WellFormed(in) }

\* ------------------------------------------------- constructed Opcodes
RegTriples == { <<0, 7, 3>> }
Operands == 0..MaxOperand \cup {U8Max}
CanonFields == {0, 15, LastBit, U8Max}

Opcodes ==
  UNION { { Rlwinm(Register(r[1]), Register(r[2]), x, y, z),
            Rlwimi(Register(r[1]), Register(r[2]), x, y, z),
            Rlwnm(Register(r[1]), Register(r[2]), Register(r[3]), y, z) } :
          r \in RegTriples, x \in CanonFields, y \in CanonFields,
          z \in CanonFields }
  \cup
  UNION { { Extlwi(Register(r[1]), Register(r[2]), n, b),
            Extrwi(Register(r[1]), Register(r[2]), n, b),
            Inslwi(Register(r[1]), Register(r[2]), n, b),
            Insrwi(Register(r[1]), Register(r[2]), n, b),
            Clrlslwi(Register(r[1]), Register(r[2]), b, n) } :
          r \in RegTriples, n \in Operands, b \in Operands }
  \cup
  UNION { { Rotlwi(Register(r[1]), Register(r[2]), n),
            Rotrwi(Register(r[1]), Register(r[2]), n),
            Slwi(Register(r[1]), Register(r[2]), n),
            Srwi(Register(r[1]), Register(r[2]), n),
            Clrlwi(Register(r[1]), Register(r[2]), n),
            Clrrwi(Register(r[1]), Register(r[2]), n),
            Rotlw(Register(r[1]), Register(r[2]), Register(r[3])) } :
          r \in RegTriples, n \in Operands }

\* ---------------------------------------------------------- state machine
VARIABLES
  input,            \* description of the line given to the parser
  line,             \* the line's text
  pc,               \* "start", "parsed", "failed", "built", "canon",
                    \* "described", "panicked"
  via,              \* which parse_opcode ran: "main" or "parser"
  res,              \* what parse_opcode returned
  ops,              \* the Opcode value and what canonicalize made of it
  desc,             \* what highlevel returned
  fault             \* the panic that ended the run

vars == <<input, line, pc, via, res, ops, desc, fault>>

NoLine == LineOf("built", 0, <<>>, <<>>, 0, 0, 0, 0, 0)
NoRes == [ok |-> FALSE, input |-> <<>>, code |-> "none"]

\* the current Opcode value
op == ops[Len(ops)]

\* a line about to be parsed, or an Opcode built by the caller
Init ==
  /\ via = "none"
  /\ res = NoRes
  /\ desc = <<>>
  /\ fault = "none"
  /\ \/ /\ input \in Lines
        /\ line = Render(input)
        /\ pc = "start"
        /\ ops = <<>>
     \/ /\ input = NoLine
        /\ line = <<>>
        /\ pc = "built"
        /\ \E o \in Opcodes : ops = <<o>>

Parsed(r, dispatcher) ==
  /\ res' = r
  /\ via' = dispatcher
  /\ pc' = IF r.ok THEN "parsed" ELSE "failed"
  /\ ops' = IF r.ok THEN <<r.val>> ELSE <<>>
  /\ UNCHANGED <<input, line, desc, fault>>

\* parse_opcode of src/main.rs, as main and test_rlwinm call it
ParseMain ==
  /\ pc = "start"
  /\ Parsed(main_parse_opcode(line), "main")

\* parse_opcode of src/parser.rs
ParseParser ==
  /\ pc = "start"
  /\ Parsed(parse_opcode(line), "parser")

\* op.canonicalize(), at most twice in a row, in a build that checks
\* arithmetic overflow or in one that does not
Canonicalize ==
  /\ pc \in {"parsed", "built", "canon"}
  /\ Len(ops) < 3
  /\ \E overflow_checks \in BOOLEAN :
       LET c == canonicalize(op, overflow_checks) IN
       IF c.tag = "panic"
       THEN /\ pc' = "panicked"
            /\ fault' = c.msg
            /\ UNCHANGED ops
       ELSE /\ pc' = "canon"
            /\ ops' = Append(ops, c)
            /\ UNCHANGED fault
  /\ UNCHANGED <<input, line, via, res, desc>>

\* op.highlevel()
Highlevel ==
  /\ pc \in {"parsed", "built", "canon"}
  /\ IF highlevel(op) = Unimplemented
     THEN /\ pc' = "panicked"
          /\ fault' = Unimplemented.msg
          /\ UNCHANGED desc
     ELSE /\ pc' = "described"
          /\ desc' = highlevel(op)
          /\ UNCHANGED fault
  /\ UNCHANGED <<input, line, via, res, ops>>

Next == ParseMain \/ ParseParser \/ Canonicalize \/ Highlevel

Spec == Init /\ [][Next]_vars

\* ================================================================ claims
\* what the claims say about a state
Mn == Mnemonics[input.m]
ran == via # "none"
Pseudo(o) == ~IsCanonical(o)
InWord(x) == x \in 0..LastBit

\* the n and b of a pseudomnemonic are 0..31 (Rotlw has neither)
OperandsInWord(o) ==
  /\ ("n" \in DOMAIN o => InWord(o.n))
  /\ ("b" \in DOMAIN o => InWord(o.b))

\* the operand text t is valid where an operand of this kind is expected
ValidTok(t, kind) ==
  /\ t.val <= U8Max
  /\ (kind = "reg" => t.kind = "reg")
  /\ (kind = "imm" => t.kind \in {"dec", "hex"})

ValidLine(in) ==
  /\ in.kw = Mnemonics[in.m].kw
  /\ Len(in.toks) = Len(Mnemonics[in.m].kinds)
  /\ \A i \in 1..Len(in.toks) : ValidTok(in.toks[i], Mnemonics[in.m].kinds[i])

\* the value a variant's field takes from the operand at position i
Supplied(in, i) ==
  IF Mnemonics[in.m].kinds[i] = "reg" THEN Register(in.toks[i].val)
  ELSE in.toks[i].val

FieldsMatch(o, in) ==
  /\ o.tag = Mnemonics[in.m].tag
  /\ \A i \in 1..Len(in.toks) : o[Mnemonics[in.m].fields[i]] = Supplied(in, i)

\* section 4.1's table, in exact integer arithmetic
Table(o) ==
  CASE o.tag = "Inslwi" -> Rlwinm(o.ra, o.rs, 32 - o.b, o.b, o.b + o.n - 1)
    [] o.tag = "Insrwi" -> Rlwinm(o.ra, o.rs, 32 - (o.b + o.n), o.b, o.b + o.n - 1)
    [] o.tag = "Extlwi" -> Rlwinm(o.ra, o.rs, o.b, 0, o.n - 1)
    [] o.tag = "Extrwi" -> Rlwinm(o.ra, o.rs, o.b + o.n, 32 - o.n, 31)
    [] o.tag = "Rotlwi" -> Rlwinm(o.ra, o.rs, o.n, 0, 31)
    [] o.tag = "Rotrwi" -> Rlwinm(o.ra, o.rs, 32 - o.n, 0, 31)
    [] o.tag = "Slwi" -> Rlwinm(o.ra, o.rs, o.n, 0, 31 - o.n)
    [] o.tag = "Srwi" -> Rlwinm(o.ra, o.rs, 32 - o.n, o.n, 31)
    [] o.tag = "Clrlwi" -> Rlwinm(o.ra, o.rs, 0, o.n, 31)
    [] o.tag = "Clrrwi" -> Rlwinm(o.ra, o.rs, 0, 0, 31 - o.n)
    [] o.tag = "Clrlslwi" -> Rlwinm(o.ra, o.rs, o.n, o.b - o.n, 31 - o.n)
    [] o.tag = "Rotlw" -> Rlwnm(o.ra, o.rs, o.rb, 0, 31)

\* C1: for every pseudomnemonic with n and b in 0..31, canonicalize returns
\* exactly the Rlwinm (Rlwnm for Rotlw) of the section 4.1 table, registers
\* unchanged.
C1_TableExact ==
  (ops # <<>> /\ Pseudo(ops[1]) /\ OperandsInWord(ops[1])) =>
    /\ fault # ArithmeticOverflow.msg
    /\ (Len(ops) >= 2 => ops[2] = Table(ops[1]))

\* C2: a line made of any of the fifteen keywords and valid operands of its
\* arity is accepted by parse_opcode and gives that keyword's variant, each
\* field equal to the operand written in its position.
C2_RoundTrip ==
  (ran /\ ValidLine(input)) => (res.ok /\ FieldsMatch(res.val, input))

\* C3: canonicalize applied to its own result changes nothing, and applied to
\* an Rlwinm, Rlwimi or Rlwnm it returns the same value.
C3_Idempotent ==
  /\ (Len(ops) = 3 => ops[3] = ops[2])
  /\ ((Len(ops) >= 2 /\ IsCanonical(ops[1])) => ops[2] = ops[1])

C3_Witness ==
  /\ Len(ops) = 3
  /\ ops[1].tag = "Clrlslwi"
  /\ ops[2].tag = "Rlwinm"

\* C4: canonicalize returns an Opcode for every Opcode it is given; its u8
\* additions and subtractions never raise an arithmetic fault.
C4_Total == fault # ArithmeticOverflow.msg

\* the error parse_opcode returns for the line "bogus r0,r1"
BogusLine == <<"b", "o", "g", "u", "s", " ", "r", "0", ",", "r", "1">>
MnemonicNotRecognized(dispatcher) ==
  IF dispatcher = "main" THEN main_parse_opcode(BogusLine)
  ELSE parse_opcode(BogusLine)

\* the dispatcher has an alternative for the line's keyword
Alternatives(dispatcher) ==
  IF dispatcher = "main" THEN MainAlternatives ELSE ParserAlternatives

KeywordDispatched(in, dispatcher) ==
  /\ in.kw = Mnemonics[in.m].kw
  /\ \E i \in 1..Len(Alternatives(dispatcher)) :
       Alternatives(dispatcher)[i] = Mnemonics[in.m].name

\* C5: a line that fails after its keyword matched fails with another error
\* kind than a line whose keyword matches nothing.
C5_DistinctErrorKinds ==
  (ran /\ ~res.ok /\ KeywordDispatched(input, via)) =>
    res.code # MnemonicNotRecognized(via).code

\* the probed operand overflows 8 bits or is a malformed hexadecimal number
BadOperand(in) ==
  /\ in.family = "probe"
  /\ LET t == in.toks[in.p]
         kind == Mnemonics[in.m].kinds[in.p]
     IN \/ kind = "reg" /\ t.kind = "reg" /\ t.val > U8Max
        \/ kind = "imm" /\ t.kind \in {"dec", "hex"} /\ t.val > U8Max
        \/ kind = "imm" /\ t.kind = "bad" /\ Len(t.text) >= 2
             /\ Take(t.text, 2) = <<"0", "x">>

\* C6: an operand that overflows 8 bits or is malformed hexadecimal makes
\* parse_opcode fail, in every operand position, the last included.
C6_BadOperandFails == (ran /\ BadOperand(input)) => ~res.ok

\* the immediate that parse_opcode read at the swept position
SweptField == res.val[Mn.fields[input.p]]
SweptTok == input.toks[input.p]

\* C7 as claimed: a value written in hexadecimal after `0x` or after `0X`
\* parses to the value its decimal text parses to.
C7_HexDecAgree ==
  (ran /\ input.family = "sweep") =>
    /\ res.ok
    /\ SweptField = dec_immediate(to_string(SweptTok.val)).val

\* C7 as amended: after the lowercase `0x` prefix the value parses to what its
\* decimal text parses to; `0X` is no hexadecimal prefix: the decimal
\* alternative reads its leading 0 and stops in front of the X.
C7_LowerPrefixAgrees ==
  (ran /\ input.family = "sweep") =>
    /\ SweptTok.kind \in {"dec", "hex"} =>
         /\ res.ok
         /\ SweptField = SweptTok.val
         /\ SweptField = dec_immediate(to_string(SweptTok.val)).val
    /\ (SweptTok.kind = "hexX" /\ input.p < Len(input.toks)) => ~res.ok
    /\ (SweptTok.kind = "hexX" /\ input.p = Len(input.toks)) =>
         /\ res.ok
         /\ SweptField = 0
         /\ Head(res.rest) = "X"

C7_Witness ==
  /\ ran
  /\ input.family = "sweep"
  /\ SweptTok = HexTok(U8Max, UpperHex, MaxZeros)
  /\ res.ok
  /\ SweptField = U8Max

\* desc is "r<ra> = (r<rs> << <sh>) & MASK(<mb>..<me>)" for the fields of o,
\* read back with the parser's own primitives
Plain(d, v) == d.val = to_string(v) /\ from_str_radix(d.val, 10).val = v
Describes(d, o) ==
  LET t1 == tag(<<"r">>, d)
      n1 == digit1(t1.rest)
      t2 == tag(<<" ", "=", " ", "(", "r">>, n1.rest)
      n2 == digit1(t2.rest)
      t3 == tag(<<" ", "<", "<", " ">>, n2.rest)
      n3 == digit1(t3.rest)
      t4 == tag(<<")", " ", "&", " ", "M", "A", "S", "K", "(">>, n3.rest)
      n4 == digit1(t4.rest)
      t5 == tag(<<".", ".">>, n4.rest)
      n5 == digit1(t5.rest)
      t6 == tag(<<")">>, n5.rest)
  IN /\ t1.ok /\ n1.ok /\ t2.ok /\ n2.ok /\ t3.ok /\ n3.ok
     /\ t4.ok /\ n4.ok /\ t5.ok /\ n5.ok /\ t6.ok
     /\ t6.rest = <<>>
     /\ Plain(n1, o.ra.num) /\ Plain(n2, o.rs.num) /\ Plain(n3, o.sh)
     /\ Plain(n4, o.mb) /\ Plain(n5, o.me)

\* C8: highlevel returns a description only for an Rlwinm, and then exactly
\* "r<ra> = (r<rs> << <sh>) & MASK(<mb>..<me>)"; for any other variant it
\* returns no string and signals that the variant is not supported.
C8_DescribesOnlyRlwinm ==
  /\ pc = "described" => (op.tag = "Rlwinm" /\ Describes(desc, op))
  /\ (pc = "panicked" /\ fault = Unimplemented.msg) =>
       (op.tag # "Rlwinm" /\ desc = <<>>)
  /\ (pc = "panicked" /\ op.tag = "Rlwinm") => fault # Unimplemented.msg

C8_Witness ==
  /\ pc = "described"
  /\ via = "main"
  /\ line = <<"r", "l", "w", "i", "n", "m", " ", "r", "0", ",", "r", "7", ",", "0", "x", "1", "0", ",", "0", "x", "0", ",", "0", "x", "f">>
  /\ desc = <<"r", "0", " ", "=", " ", "(", "r", "7", " ", "<", "<", " ", "1", "6", ")", " ", "&", " ", "M", "A", "S", "K", "(", "0", ".", ".", "1", "5", ")">>

\* what the dispatcher that ran returns for the line without its padding
UnpaddedResult ==
  IF via = "main" THEN main_parse_opcode(Render(Unpadded(input)))
  ELSE parse_opcode(Render(Unpadded(input)))

\* C9: whitespace after the keyword and around the commas, none included,
\* leaves the parsed Opcode what it is for the unpadded line; with the
\* keyword in uppercase the line fails to parse.
C9_WhitespaceInsensitive ==
  /\ (pc \in {"parsed", "failed"} /\ input.family = "padded") =>
       /\ res.ok = UnpaddedResult.ok
       /\ res.ok => (res.val = UnpaddedResult.val /\ res.rest = <<>>)
       /\ KeywordDispatched(input, via) =>
            (res.ok /\ FieldsMatch(res.val, input))
  /\ (ran /\ input.family = "upper") => ~res.ok

C9_Witness ==
  /\ ran
  /\ input.family = "padded"
  /\ input.lead = MaxPad /\ input.pre = MaxPad /\ input.post = MaxPad
  /\ input.at = 0
  /\ res.ok
  /\ res.val.tag = "Rlwnm"

\* C10: for a pseudomnemonic with n and b in 0..31, the sh, mb and me that
\* canonicalize returns are each in 0..31.
C10_FieldsInWord ==
  (Len(ops) >= 2 /\ Pseudo(ops[1]) /\ OperandsInWord(ops[1])) =>
    /\ ("sh" \in DOMAIN ops[2] => InWord(ops[2].sh))
    /\ InWord(ops[2].mb)
    /\ InWord(ops[2].me)

\* the positions in names of the alternatives that accept the line l, and of
\* those whose keyword is a prefix of it
Accepting(names, l) ==
  { i \in 1..Len(names) : parse_alternative(names[i], l).ok }
KeywordMatching(names, l) ==
  { i \in 1..Len(names) :
      \E m \in 1..15 : /\ Mnemonics[m].name = names[i]
                        /\ tag(Mnemonics[m].kw, l).ok }

\* the alternatives tried last to first: of two that accept a line, alt then
\* returns the other one
Reverse(names) == [i \in 1..Len(names) |-> names[Len(names) + 1 - i]]

\* r is the outcome a: the same failure, or the same Opcode and rest
SameOutcome(r, a) ==
  /\ r.ok = a.ok
  /\ a.ok => (r.val = a.val /\ r.rest = a.rest)

\* at most one alternative accepts, and none after one whose keyword matched
\* and whose operands failed; r is a failure exactly when none accepts
AtMostOne(acc, kw, r) ==
  /\ Cardinality(acc) <= 1
  /\ \A i \in kw \ acc : \A j \in acc : j < i
  /\ r.ok = (acc # {})

\* C11: at most one alternative of parse_opcode accepts a line, so the Opcode
\* returned, or the failure, is the same in whatever order the alternatives
\* are tried; no line is accepted both as rotlw and as rotlwi; a line whose
\* keyword matched and whose operands failed is accepted by no later
\* alternative.
C11_Unambiguous ==
  pc \in {"parsed", "failed"} =>
    /\ AtMostOne(Accepting(Alternatives(via), line),
                 KeywordMatching(Alternatives(via), line), res)
    /\ SameOutcome(alt(Reverse(Alternatives(via)), line), res)
    /\ ~(parse_rotlw(line).ok /\ parse_rotlwi(line).ok)

\* a rotlwi line: the keyword of rotlw matches it too, rotlw is tried after
\* rotlwi in the source order and before it in the reverse order
C11_Witness ==
  /\ pc = "parsed"
  /\ via = "parser"
  /\ input.kw = KW_rotlwi
  /\ res.val.tag = "Rotlwi"
  /\ Cardinality(KeywordMatching(ParserAlternatives, line)) = 2
  /\ Accepting(ParserAlternatives, line) = {6}
  /\ Accepting(Reverse(ParserAlternatives), line) = {10}

====
